---- MODULE Spec2Model ----
(***************************************************************************)
(* Knowledge graph store of backend/graph_components: the node map, the    *)
(* ordered edge list, the bidirectional flag, the mutation operations      *)
(* (appendNode, appendEdge, deleteNode, deleteEdge) and the weighted path  *)
(* search find_paths; the similarity index of backend/vector_db that the    *)
(* graph keeps when use_vector_db is set; and the duplicate check of        *)
(* graph_factory/graph_creation_pipeline/integrityCheck.py.                *)
(*                                                                         *)
(* Weights are floats in the source; here a weight is a whole number of    *)
(* tenths (9 is 0.9) and an accumulated weight is a fraction num/den, so   *)
(* products and comparisons are exact.                                     *)
(***************************************************************************)
EXTENDS Integers, Sequences, FiniteSets, TLC

VARIABLES
    nodes,          \* Graph.nodes: title -> Node
    node_keys,      \* the keys of Graph.nodes in the dict's iteration (insertion) order
    edges,          \* Graph.edges
    bidirectional,  \* Graph.bidirectional
    use_vector_db,  \* Graph.use_vector_db: a vector_store is attached exactly when set
    vector_store,   \* the entries of Graph.vector_store's collection, in order of addition
    last            \* the last call and its outcome

vars == <<nodes, node_keys, edges, bidirectional, use_vector_db, vector_store, last>>

(***************************************************************************)
(* Bounds of the model.                                                    *)
(***************************************************************************)
\* at most MaxEdges appendEdge calls' worth of edges are held at a time
MaxEdges == 2
\* a path query meets the edges of at most MaxPathEdges appendEdge calls
MaxPathEdges == 3
\* find_paths is asked for -1 .. MaxAmount paths
MaxAmount == 2
\* the collection of the similarity index holds at most MaxEntries entries
MaxEntries == 3
\* a snapshot is built from at most MaxSnapshotEdges edges
MaxSnapshotEdges == 2
\* the graphs of weight-carrying edges are built by at most MaxWeightedEdges appendEdge calls
MaxWeightedEdges == 4

\* node titles, in Python's string order
TitleOrder == <<"Apple", "Supplier1", "Supplier2">>

Titles == {TitleOrder[i] : i \in 1..Len(TitleOrder)}

(***************************************************************************)
(* Node and Edge values.                                                   *)
(***************************************************************************)
\* graph_components.Node: a pydantic model with name, aliases, description, type
Node(n) == [name |-> n, aliases |-> <<>>, description |-> "entity", type |-> "Company"]

\* Node.title is a property returning name
title(node) == node.name

\* graph_components.Edge: the pydantic model Graph.py imports; its score field is
\* importance_score and it has no field named weight
Edge(t, d, s, e, w) ==
    [title |-> t, description |-> d, start |-> s, end |-> e, importance_score |-> w]

\* graph_creation_pipeline.graph_components.Edge: the plain class with a weight attribute
FactoryEdge(s, e, w, d, t) ==
    [start |-> s, end |-> e, weight |-> w, description |-> d, title |-> t]

\* reading edge.weight: an Edge without the attribute raises AttributeError
HasWeight(edge) == "weight" \in DOMAIN edge

\* the score an edge carries, whichever class it is
Score(edge) == IF HasWeight(edge) THEN edge.weight ELSE edge.importance_score

\* the node objects callers hand to the graph, one per title
NodeInputs == {Node(n) : n \in Titles}

\* a supply relationship may join any two nodes (a node with itself included)
Supplies == [t |-> "supplies", d |-> "supplies parts", w |-> 9]

\* the two suppliers also compete with one another
Competes == [t |-> "competes", d |-> "competes with", w |-> 5]

\* the Edge objects callers hand to appendEdge: the endpoints are Node objects,
\* whether or not the graph holds them
EdgeInputs ==
    {Edge(Supplies.t, Supplies.d, s, e, Supplies.w) : s \in NodeInputs, e \in NodeInputs}
    \cup
    {Edge(Competes.t, Competes.d, Node(p[1]), Node(p[2]), Competes.w) :
        p \in {<<"Supplier1", "Supplier2">>, <<"Supplier2", "Supplier1">>}}

(***************************************************************************)
(* Graph mutation: the new value of nodes / edges each method assigns.     *)
(***************************************************************************)
\* mutant: a title already held keeps its node
NodesAfterAppend_KeepOld(ns, node) ==
    [k \in DOMAIN ns \cup {title(node)} |-> IF k \in DOMAIN ns THEN ns[k] ELSE node]

\* self.nodes[node.title] = node
NodesAfterAppend(ns, node) ==
    [k \in DOMAIN ns \cup {title(node)} |-> IF k = title(node) THEN node ELSE ns[k]]

\* deepcopy(edge) with start and end swapped
ReverseEdge(edge) == [edge EXCEPT !.start = edge.end, !.end = edge.start]

\* self.edges.append(edge), and the reverse edge when bidirectional
EdgesAfterAppend(es, bidir, edge) ==
    IF bidir THEN Append(Append(es, edge), ReverseEdge(edge)) ELSE Append(es, edge)

\* del self.nodes[node_title]
NodesAfterDelete(ns, node_title) == [k \in DOMAIN ns \ {node_title} |-> ns[k]]

\* mutant: only the edges that start at the node are dropped
EdgesAfterDeleteNode_StartOnly(es, node_title) ==
    LET Keep(edge) == title(edge.start) # node_title
    IN  SelectSeq(es, Keep)

\* [edge for edge in self.edges if edge.start.title != t and edge.end.title != t]
EdgesAfterDeleteNode(es, node_title) ==
    LET Keep(edge) == title(edge.start) # node_title /\ title(edge.end) # node_title
    IN  SelectSeq(es, Keep)

\* mutant: the bidirectional branch is lost, only start -> end is dropped
EdgesAfterDeleteEdge_ForwardOnly(es, bidir, start_title, end_title) ==
    LET KeepFwd(edge) == ~(title(edge.start) = start_title /\ title(edge.end) = end_title)
    IN  SelectSeq(es, KeepFwd)

\* mutant: both directions are dropped whatever the flag
EdgesAfterDeleteEdge_BothAlways(es, bidir, start_title, end_title) ==
    LET KeepBoth(edge) ==
            ~(\/ (title(edge.start) = start_title /\ title(edge.end) = end_title)
              \/ (title(edge.start) = end_title /\ title(edge.end) = start_title))
    IN  SelectSeq(es, KeepBoth)

\* the two list comprehensions of deleteEdge
EdgesAfterDeleteEdge(es, bidir, start_title, end_title) ==
    LET Fwd(edge) == title(edge.start) = start_title /\ title(edge.end) = end_title
        Bwd(edge) == title(edge.start) = end_title /\ title(edge.end) = start_title
        KeepBoth(edge) == ~(Fwd(edge) \/ Bwd(edge))
        KeepFwd(edge) == ~Fwd(edge)
    IN  IF bidir THEN SelectSeq(es, KeepBoth) ELSE SelectSeq(es, KeepFwd)

(***************************************************************************)
(* The node map as a dict: its keys keep their insertion order.            *)
(***************************************************************************)
\* the keys after self.nodes[title] = node: a new key goes last, an old one stays put
KeysAfterAppend(keys, node_title) ==
    IF \E i \in 1..Len(keys) : keys[i] = node_title THEN keys ELSE Append(keys, node_title)

\* the keys after del self.nodes[node_title]
KeysAfterDelete(keys, node_title) ==
    LET Other(k) == k # node_title
    IN  SelectSeq(keys, Other)

\* list(graph.nodes.values())
Values(ns, keys) == [i \in 1..Len(keys) |-> ns[keys[i]]]

(***************************************************************************)
(* The similarity index: vector_db.VectorStore over a collection, and the  *)
(* embedding service.  An embedding is modelled by the text it is computed *)
(* from; a collection entry carries id, embedding, metadata and document.  *)
(***************************************************************************)
\* a graph_components.Node with the given fields
Entity(n, a, d, t) == [name |-> n, aliases |-> a, description |-> d, type |-> t]

\* the entities of the similarity-index runs: one name with an alias, the same name
\* with other content, the alias as a name of its own, and that name in lower case
EntityInputs ==
    { Entity("Microsoft Corporation", <<"Microsoft">>, "software company", "Company"),
      Entity("Microsoft Corporation", << >>, "technology company", "Company"),
      Entity("Microsoft", << >>, "technology company", "Organization"),
      Entity("microsoft", << >>, "technology company", "Organization") }

EntityNames == {e.name : e \in EntityInputs}

\* sep.join(list), for the lists of the model (at most one element has no separator)
Join(sep, list) ==
    IF list = << >> THEN "" ELSE IF Len(list) = 1 THEN list[1] ELSE <<sep, list>>

\* EmbeddingService.get_node_embedding(node): the embedding of "name: description"
\* followed by the aliases when there are any
get_node_embedding(node) ==
    IF node.aliases # << >>
    THEN [text |-> <<node.name, node.description, Join(", ", node.aliases)>>]
    ELSE [text |-> <<node.name, node.description>>]

\* the metadata add_node stores with an entry
Metadata(node) ==
    IF node.aliases # << >>
    THEN [name |-> node.name, description |-> node.description, type |-> node.type,
          aliases |-> Join(", ", node.aliases)]
    ELSE [name |-> node.name, description |-> node.description, type |-> node.type]

\* str(uuid.uuid4()): an id no entry of the collection has
NewId(store) ==
    CHOOSE n \in 1..(Len(store) + 1) :
        /\ \A i \in 1..Len(store) : store[i].id # n
        /\ \A k \in 1..(n - 1) : \E i \in 1..Len(store) : store[i].id = k

\* reading node.id / node.vector_db_id: hasattr is false on a Node without the field
HasId(node) == "id" \in DOMAIN node

HasVectorDbId(node) == "vector_db_id" \in DOMAIN node

\* VectorStore.add_node(node, embedding): one more entry, under a fresh id unless the
\* node carries an id attribute
add_node(store, node, embedding) ==
    LET node_id == IF HasId(node) THEN node.id ELSE NewId(store)
    IN  [store |-> Append(store, [id |-> node_id,
                                  embedding |-> embedding,
                                  metadata |-> Metadata(node),
                                  document |-> <<node.name, node.description>>]),
         node_id |-> node_id]

\* VectorStore.delete_node(node_id): collection.delete(ids=[node_id])
delete_node(store, node_id) ==
    LET Other(entry) == entry.id # node_id
    IN  SelectSeq(store, Other)

\* mutant: the assignment succeeds and the node carries the id
setattr_vector_db_id_Stored(node, node_id) ==
    [node |-> [k \in DOMAIN node \cup {"vector_db_id"} |->
                  IF k = "vector_db_id" THEN node_id ELSE node[k]],
     exc |-> "none"]

\* setattr(node, 'vector_db_id', node_id): Node is a pydantic model without such a
\* field, so the assignment raises ValueError and the node is left as it was
setattr_vector_db_id(node, node_id) == [node |-> node, exc |-> "ValueError"]

\* what can go wrong inside appendNode's try block: nothing, the embedding service
\* raises, or the collection raises on add
AppendFaults == {"none", "embedding", "index"}

\* what can go wrong inside deleteNode's try block: nothing, or the collection raises
DeleteFaults == {"none", "index"}

\* the try block of appendNode: embed, add_node, then record the id on the node;
\* whatever is raised is caught and printed
AppendNodeIndexed(store, node, fault) ==
    IF fault # "none"
    THEN [store |-> store, node |-> node, caught |-> fault]
    ELSE LET added == add_node(store, node, get_node_embedding(node))
             tagged == IF HasVectorDbId(node)
                       THEN [node |-> node, exc |-> "none"]
                       ELSE setattr_vector_db_id(node, added.node_id)
         IN  [store |-> added.store, node |-> tagged.node, caught |-> tagged.exc]

\* the try block of deleteNode: delete the entry of the node's vector_db_id when the
\* node has one, print a warning otherwise; delete_node catches what the collection raises
DeleteNodeIndexed(store, node, fault) ==
    IF HasVectorDbId(node) /\ fault = "none"
    THEN delete_node(store, node.vector_db_id)
    ELSE store

(***************************************************************************)
(* The record of the last call: its name, arguments, return value and the  *)
(* exception it raised ("none" when it returned).                          *)
(***************************************************************************)
Call(op, args, ret, exc) == [op |-> op, args |-> args, ret |-> ret, exc |-> exc]

\* Graph.__init__: empty nodes and edges; the flag is fixed at construction
Init ==
    /\ nodes = << >>
    /\ node_keys = << >>
    /\ edges = << >>
    /\ bidirectional \in BOOLEAN
    /\ use_vector_db = FALSE
    /\ vector_store = << >>
    /\ last = Call("init", << >>, "None", "none")

\* room for one more appendEdge within the bound
EdgeRoom == Len(edges) < (IF bidirectional THEN 2 * MaxEdges ELSE MaxEdges)

\* mutant: what the try block raises reaches the caller
ExceptPrint_Reraise(caught) == caught

\* except Exception as e: print(...): whatever the try block raised, the method
\* goes on and raises nothing
ExceptPrint(caught) == "none"

\* room for one more entry of the collection within the bound
IndexRoom == use_vector_db => Len(vector_store) < MaxEntries

\* Graph.appendNode(node), with fault going wrong in the index work
AppendNodeWith(node, fault) ==
    LET indexed == IF use_vector_db
                   THEN AppendNodeIndexed(vector_store, node, fault)
                   ELSE [store |-> vector_store, node |-> node, caught |-> "none"]
    IN  /\ IndexRoom
        /\ nodes' = NodesAfterAppend(nodes, indexed.node)
        /\ node_keys' = KeysAfterAppend(node_keys, title(node))
        /\ vector_store' = indexed.store
        /\ last' = [op |-> "appendNode", args |-> <<title(node)>>, ret |-> "None",
                    exc |-> ExceptPrint(indexed.caught), node |-> node, fault |-> fault]
        /\ UNCHANGED <<edges, bidirectional, use_vector_db>>

\* Graph.appendNode(node)
AppendNode(node) ==
    \E fault \in (IF use_vector_db THEN AppendFaults ELSE {"none"}) :
        AppendNodeWith(node, fault)

\* Graph.appendEdge(edge): no check of the endpoints, never raises
AppendEdge(edge) ==
    /\ EdgeRoom
    /\ edges' = EdgesAfterAppend(edges, bidirectional, edge)
    /\ last' = Call("appendEdge", <<title(edge.start), title(edge.end)>>, "None", "none")
    /\ UNCHANGED <<nodes, node_keys, bidirectional, use_vector_db, vector_store>>

\* Graph.deleteNode(node_title)
DeleteNodeWith(node_title, fault) ==
    IF node_title \notin DOMAIN nodes
    THEN /\ last' = [op |-> "deleteNode", args |-> <<node_title>>, ret |-> FALSE,
                     exc |-> "none", fault |-> fault]
         /\ UNCHANGED <<nodes, node_keys, edges, bidirectional, use_vector_db, vector_store>>
    ELSE /\ vector_store' = IF use_vector_db
                            THEN DeleteNodeIndexed(vector_store, nodes[node_title], fault)
                            ELSE vector_store
         /\ nodes' = NodesAfterDelete(nodes, node_title)
         /\ node_keys' = KeysAfterDelete(node_keys, node_title)
         /\ edges' = EdgesAfterDeleteNode(edges, node_title)
         /\ last' = [op |-> "deleteNode", args |-> <<node_title>>, ret |-> TRUE,
                     exc |-> "none", fault |-> fault]
         /\ UNCHANGED <<bidirectional, use_vector_db>>

\* Graph.deleteNode(node_title)
DeleteNode(node_title) ==
    \E fault \in (IF use_vector_db THEN DeleteFaults ELSE {"none"}) :
        DeleteNodeWith(node_title, fault)

\* mutant: <= for <
DeleteEdgeReturn_OrEqual(initial_length, es) == Len(es) <= initial_length

\* return len(self.edges) < initial_length
DeleteEdgeReturn(initial_length, es) == Len(es) < initial_length

\* Graph.deleteEdge(start_title, end_title)
DeleteEdge(start_title, end_title) ==
    LET initial_length == Len(edges)
        after == EdgesAfterDeleteEdge(edges, bidirectional, start_title, end_title)
    IN  /\ edges' = after
        /\ last' = Call("deleteEdge", <<start_title, end_title>>,
                        DeleteEdgeReturn(initial_length, after), "none")
        /\ UNCHANGED <<nodes, node_keys, bidirectional, use_vector_db, vector_store>>

Next ==
    \/ \E node \in NodeInputs : AppendNode(node)
    \/ \E edge \in EdgeInputs : AppendEdge(edge)
    \/ \E t \in Titles : DeleteNode(t)
    \/ \E s \in Titles, e \in Titles : DeleteEdge(s, e)

Spec == Init /\ [][Next]_vars

(***************************************************************************)
(* find_paths: depth-first search over self.edges, in list order.          *)
(***************************************************************************)
\* an accumulated weight: num / den, den a power of ten
Frac(num, den) == [num |-> num, den |-> den]

\* total_weight * edge.weight, the weight in tenths
TimesWeight(total_weight, w) == Frac(total_weight.num * w, total_weight.den * 10)

\* float comparison of two accumulated weights
FracLess(x, y) == x.num * y.den < y.num * x.den
FracEq(x, y) == x.num * y.den = y.num * x.den

\* the total_weight the search starts from: dfs(start_title, target_title, [], set(), 0)
InitialWeight == Frac(0, 1)

\* position of a title in Python's string order
RankOf(t) == CHOOSE i \in 1..Len(TitleOrder) : TitleOrder[i] = t

\* Python's list comparison p < q of two lists of titles
RECURSIVE PathLess(_, _)
PathLess(p, q) ==
    IF p = << >> THEN q # << >>
    ELSE IF q = << >> THEN FALSE
    ELSE IF Head(p) = Head(q) THEN PathLess(Tail(p), Tail(q))
    ELSE RankOf(Head(p)) < RankOf(Head(q))

\* Python's tuple comparison x < y of two (weight, path) pairs, as zip builds them
ItemLess(x, y) ==
    \/ FracLess(x.weight, y.weight)
    \/ (FracEq(x.weight, y.weight) /\ PathLess(x.path, y.path))

\* the outcome of a dfs call together with the path list and the visited set as the
\* call leaves them, and the greatest length the path list had during the call
Frame(items, exc, path, visited, depth) ==
    [items |-> items, exc |-> exc, path |-> path, visited |-> visited, depth |-> depth]

RECURSIVE dfs(_, _, _, _, _, _), dfsEdges(_, _, _, _, _, _, _)

\* mutant: the backtracking step is lost
dfs_NoBacktrack(es, current_title, target_title, path, visited, total_weight) ==
    LET visited1 == visited \cup {current_title}
        path1 == Append(path, current_title)
    IN  IF current_title = target_title
        THEN Frame(<<[weight |-> total_weight, path |-> path1]>>, "none", path1, visited1,
                   Len(path1))
        ELSE dfsEdges(es, 1, current_title, target_title, path1, visited1, total_weight)

\* mutant: the target test is made only after an edge was followed
dfs_LeaveFirst(es, current_title, target_title, path, visited, total_weight) ==
    LET visited1 == visited \cup {current_title}
        path1 == Append(path, current_title)
        inner == IF current_title = target_title /\ path # << >>
                 THEN Frame(<<[weight |-> total_weight, path |-> path1]>>, "none",
                            path1, visited1, Len(path1))
                 ELSE dfsEdges(es, 1, current_title, target_title, path1, visited1,
                               total_weight)
    IN  IF inner.exc # "none" THEN inner
        ELSE Frame(inner.items, "none",
                   SubSeq(inner.path, 1, Len(inner.path) - 1),
                   inner.visited \ {current_title},
                   inner.depth)

\* dfs(current_title, target_title, path, visited, total_weight): path and visited
\* are the one list and the one set every call works on; the call appends and adds,
\* searches, and pops and removes again unless an exception cut it short
dfs(es, current_title, target_title, path, visited, total_weight) ==
    LET visited1 == visited \cup {current_title}
        path1 == Append(path, current_title)
        inner == IF current_title = target_title
                 THEN Frame(<<[weight |-> total_weight, path |-> path1]>>, "none",
                            path1, visited1, Len(path1))
                 ELSE dfsEdges(es, 1, current_title, target_title, path1, visited1,
                               total_weight)
    IN  IF inner.exc # "none" THEN inner
        ELSE Frame(inner.items, "none",
                   SubSeq(inner.path, 1, Len(inner.path) - 1),
                   inner.visited \ {current_title},
                   inner.depth)

\* for edge in self.edges, from the i-th edge on
dfsEdges(es, i, current_title, target_title, path, visited, total_weight) ==
    IF i > Len(es) THEN Frame(<< >>, "none", path, visited, Len(path))
    ELSE IF title(es[i].start) = current_title /\ title(es[i].end) \notin visited
    THEN IF ~HasWeight(es[i]) THEN Frame(<< >>, "AttributeError", path, visited, Len(path))
         ELSE LET below == dfs(es, title(es[i].end), target_title, path, visited,
                               TimesWeight(total_weight, es[i].weight))
              IN  IF below.exc # "none" THEN below
                  ELSE LET rest == dfsEdges(es, i + 1, current_title, target_title,
                                            below.path, below.visited, total_weight)
                       IN  IF rest.exc # "none" THEN rest
                           ELSE Frame(below.items \o rest.items, "none",
                                      rest.path, rest.visited,
                                      IF below.depth > rest.depth THEN below.depth
                                      ELSE rest.depth)
    ELSE dfsEdges(es, i + 1, current_title, target_title, path, visited, total_weight)

\* list.insert of x behind every element that does not compare less than x
InsertDescending(sorted, x) ==
    LET k == Cardinality({i \in 1..Len(sorted) : ~ItemLess(sorted[i], x)})
    IN  SubSeq(sorted, 1, k) \o <<x>> \o SubSeq(sorted, k + 1, Len(sorted))

\* sorted(zip(path_weights, all_paths), reverse=True): descending and stable
RECURSIVE SortedDescending(_)
SortedDescending(items) ==
    IF items = << >> THEN << >>
    ELSE InsertDescending(SortedDescending(SubSeq(items, 1, Len(items) - 1)),
                          items[Len(items)])

Min(a, b) == IF a < b THEN a ELSE b
Max(a, b) == IF a < b THEN b ELSE a

\* Python's s[:n], n possibly negative
SliceTo(s, n) ==
    IF n >= 0 THEN SubSeq(s, 1, Min(n, Len(s))) ELSE SubSeq(s, 1, Max(Len(s) + n, 0))

\* mutant: the slice is lost and every sorted path is returned
TopPaths_All(sorted, amount) == sorted

\* sorted_paths[: min(amount, len(sorted_paths))]
TopPaths(sorted, amount) == SliceTo(sorted, Min(amount, Len(sorted)))

\* Graph.find_paths: the sorted (weight, path) pairs it returns the paths of, or the
\* exception it raises
find_paths(ns, es, start_title, target_title, amount) ==
    IF start_title \notin DOMAIN ns \/ target_title \notin DOMAIN ns
    THEN Frame(<< >>, "none", << >>, {}, 0)
    ELSE LET search == dfs(es, start_title, target_title, << >>, {}, InitialWeight)
         IN  IF search.exc # "none" THEN search
             ELSE Frame(TopPaths(SortedDescending(search.items), amount), "none",
                        search.path, search.visited, search.depth)

\* the list of paths of a list of (weight, path) pairs
PathsOf(items) == [i \in 1..Len(items) |-> items[i].path]

\* the weights accumulated for them
WeightsOf(items) == [i \in 1..Len(items) |-> items[i].weight]

\* the amounts find_paths is called with
Amounts == -1..MaxAmount

\* Graph.find_paths(start_title, target_title, amount): nodes and edges are only read
FindPaths(start_title, target_title, amount) ==
    LET r == find_paths(nodes, edges, start_title, target_title, amount)
    IN  /\ last' = [op |-> "find_paths",
                    args |-> <<start_title, target_title, amount>>,
                    ret |-> PathsOf(r.items),
                    exc |-> r.exc,
                    weights |-> WeightsOf(r.items),
                    path |-> r.path,
                    visited |-> r.visited,
                    depth |-> r.depth]
        /\ UNCHANGED <<nodes, node_keys, edges, bidirectional, use_vector_db, vector_store>>

\* tools.get_path_with_most_weight: graph.find_paths(start_title, target_title,
\* amount=1), then [] for an empty result and paths[0] otherwise; an exception of
\* find_paths is not caught
get_path_with_most_weight(ns, es, start_title, target_title) ==
    LET paths == find_paths(ns, es, start_title, target_title, 1)
    IN  IF paths.exc # "none" THEN [ret |-> << >>, exc |-> paths.exc]
        ELSE IF paths.items = << >> THEN [ret |-> << >>, exc |-> "none"]
        ELSE [ret |-> PathsOf(paths.items)[1], exc |-> "none"]

\* get_path_with_most_weight(graph, start_title, target_title): the graph is only read
GetPathWithMostWeight(start_title, target_title) ==
    LET r == get_path_with_most_weight(nodes, edges, start_title, target_title)
    IN  /\ last' = Call("get_path_with_most_weight", <<start_title, target_title>>,
                        r.ret, r.exc)
        /\ UNCHANGED <<nodes, node_keys, edges, bidirectional, use_vector_db, vector_store>>

\* score of a relationship between two titles, in tenths
PathScore(s, e) ==
    IF {s, e} = {"Apple", "Supplier1"} THEN 9
    ELSE IF {s, e} = {"Supplier1", "Supplier2"} THEN 5
    ELSE IF {s, e} = {"Apple", "Supplier2"} THEN 3
    ELSE 10

\* the edges handed to appendEdge in the path-search runs: weight-carrying edges
\* along and against the supply chain, a self-loop, and Edge objects of
\* graph_components
PathEdgeInputs ==
    {FactoryEdge(Node(p[1]), Node(p[2]), PathScore(p[1], p[2]), "supplies parts", "supplies") :
        p \in {<<"Apple", "Supplier1">>, <<"Supplier1", "Supplier2">>,
               <<"Apple", "Supplier2">>, <<"Supplier2", "Supplier1">>,
               <<"Supplier2", "Apple">>, <<"Supplier1", "Supplier1">>}}
    \cup
    {Edge("supplies", "supplies parts", Node(p[1]), Node(p[2]), PathScore(p[1], p[2])) :
        p \in {<<"Apple", "Supplier1">>, <<"Supplier1", "Supplier2">>}}

\* the edge list after appendEdge of each of inputs in turn
RECURSIVE EdgesAfterAppendAll(_, _, _)
EdgesAfterAppendAll(es, bidir, inputs) ==
    IF inputs = << >> THEN es
    ELSE EdgesAfterAppendAll(EdgesAfterAppend(es, bidir, Head(inputs)), bidir, Tail(inputs))

\* the graphs a path query meets: any set of nodes appended, and the edges of up to
\* MaxPathEdges appendEdge calls (appendEdge checks no endpoint, and what deleteNode
\* and deleteEdge leave is again such a list)
PathInit ==
    /\ bidirectional \in BOOLEAN
    /\ nodes \in {[k \in K |-> Node(k)] : K \in SUBSET Titles}
    /\ node_keys = SelectSeq(TitleOrder, LAMBDA k : k \in DOMAIN nodes)
    /\ use_vector_db = FALSE
    /\ vector_store = << >>
    /\ \E n \in 0..MaxPathEdges : \E inputs \in [1..n -> PathEdgeInputs] :
          edges = EdgesAfterAppendAll(<< >>, bidirectional, inputs)
    /\ last = Call("init", << >>, "None", "none")

\* one path query on the graph; the query reads only, so a second one would meet the
\* same graph
NextPaths ==
    /\ last.op = "init"
    /\ \/ \E s \in Titles, t \in Titles, amount \in Amounts : FindPaths(s, t, amount)
       \/ \E s \in Titles, t \in Titles : GetPathWithMostWeight(s, t)

PathSpec == PathInit /\ [][NextPaths]_vars

\* the edges handed to appendEdge in the runs with weight-carrying edges only
WeightedEdgeInputs ==
    {FactoryEdge(Node(p[1]), Node(p[2]), PathScore(p[1], p[2]), "supplies parts", "supplies") :
        p \in {<<"Apple", "Supplier1">>, <<"Supplier1", "Supplier2">>,
               <<"Apple", "Supplier2">>}}

\* graphs built by up to MaxWeightedEdges appendEdge calls of weight-carrying edges,
\* the same edge possibly more than once
WeightedInit ==
    /\ bidirectional \in BOOLEAN
    /\ nodes \in {[k \in K |-> Node(k)] : K \in SUBSET Titles}
    /\ node_keys = SelectSeq(TitleOrder, LAMBDA k : k \in DOMAIN nodes)
    /\ use_vector_db = FALSE
    /\ vector_store = << >>
    /\ \E n \in 0..MaxWeightedEdges : \E inputs \in [1..n -> WeightedEdgeInputs] :
          edges = EdgesAfterAppendAll(<< >>, bidirectional, inputs)
    /\ last = Call("init", << >>, "None", "none")

\* one find_paths call on such a graph
NextWeighted ==
    /\ last.op = "init"
    /\ \E s \in Titles, t \in Titles, amount \in Amounts : FindPaths(s, t, amount)

WeightedSpec == WeightedInit /\ [][NextWeighted]_vars

(***************************************************************************)
(* Similarity query and duplicate check.  Distances and similarities are   *)
(* whole hundredths (85 is 0.85), so 1 - distance and the threshold         *)
(* comparison are exact.                                                   *)
(***************************************************************************)
\* str.lower() on the names and aliases of the model
lower(s) ==
    CASE s = "Microsoft Corporation" -> "microsoft corporation"
      [] s = "Microsoft" -> "microsoft"
      [] s = "Apple" -> "apple"
      [] s = "Supplier1" -> "supplier1"
      [] s = "Supplier2" -> "supplier2"
      [] OTHER -> s

\* 1.0 in hundredths
One == 100

\* IntegrityCheck(similarity_threshold = 0.85, top_k = 3)
similarity_threshold == 85

top_k == 3

\* the similarities the name tiers report: 0.9 and 0.8
CaseSimilarity == 90

AliasSimilarity == 80

\* the reasons checkDuplicates reports, one per tier
ReasonExact == "Exact title match"

ReasonSemantic == "Semantic similarity"

ReasonCase == "Case-insensitive name match"

ReasonAlias == "Name matches alias"

\* distances the collection may report: 0 between equal embeddings, and between
\* different ones a distance that puts the similarity on the threshold or one
\* hundredth below it
Distances == {0, One - similarity_threshold, One - similarity_threshold + 1}

\* the orders in which n entries can be listed
Orderings(n) == {f \in [1..n -> 1..n] : \A i \in 1..n, j \in 1..n : f[i] = f[j] => i = j}

\* the answers collection.query may give, formatted by _format_results: the
\* n_results nearest entries by ascending distance, each with id, metadata,
\* document and distance; the distances between different embeddings and the
\* order among equal distances are the backend's
search_by_embedding(store, embedding, n_results) ==
    LET n == Len(store)
        Fits(dist) == \A i \in 1..n : (dist[i] = 0) <=> (store[i].embedding = embedding)
        Ascending(order, dist) == \A k \in 1..(n - 1) : dist[order[k]] <= dist[order[k + 1]]
        Results(order, dist) ==
            [k \in 1..Min(n_results, n) |->
                [id |-> store[order[k]].id,
                 metadata |-> store[order[k]].metadata,
                 document |-> store[order[k]].document,
                 distance |-> dist[order[k]]]]
    IN  {Results(order, dist) :
            <<order, dist>> \in {od \in Orderings(n) \X [1..n -> Distances] :
                                    Fits(od[2]) /\ Ascending(od[1], od[2])}}

\* Python's None where a node or a dict may stand in its place
None == [none |-> TRUE]

\* next((n for n in graph.nodes.values() if n.name == node_title), None)
NodeNamed(ns, keys, node_title) ==
    LET hits == {i \in 1..Len(keys) : ns[keys[i]].name = node_title}
    IN  IF hits = {} THEN None
        ELSE ns[keys[CHOOSE i \in hits : \A j \in hits : i <= j]]

\* what checkDuplicates returns: (is_duplicate, info)
Duplicate(node, similarity, reason) ==
    [is_duplicate |-> TRUE,
     info |-> [node |-> node, similarity |-> similarity, reason |-> reason]]

NotDuplicate == [is_duplicate |-> FALSE, info |-> None]

\* any(alias.lower() == node.name.lower() for alias in existing_node.aliases)
AliasMatches(node, existing_node) ==
    \E i \in 1..Len(existing_node.aliases) :
        lower(existing_node.aliases[i]) = lower(node.name)

\* the fallback loop of checkDuplicates from the i-th value on: for each existing
\* node in turn, the name ignoring case and then the aliases
RECURSIVE NameTiers(_, _, _)
NameTiers(node, values, i) ==
    IF i > Len(values) THEN NotDuplicate
    ELSE IF lower(node.name) = lower(values[i].name)
         THEN Duplicate(values[i], CaseSimilarity, ReasonCase)
    ELSE IF AliasMatches(node, values[i])
         THEN Duplicate(values[i], AliasSimilarity, ReasonAlias)
    ELSE NameTiers(node, values, i + 1)

\* mutant: > for >=
VectorTier_Strict(ns, keys, similar_nodes) ==
    IF similar_nodes = << >> THEN NotDuplicate
    ELSE LET most_similar == similar_nodes[1]
             similarity == One - most_similar.distance
         IN  IF similarity > similarity_threshold
             THEN Duplicate(NodeNamed(ns, keys, most_similar.metadata.name),
                            similarity, ReasonSemantic)
             ELSE NotDuplicate

\* the vector tier once the query has answered: the nearest entry decides
VectorTier(ns, keys, similar_nodes) ==
    IF similar_nodes = << >> THEN NotDuplicate
    ELSE LET most_similar == similar_nodes[1]
             similarity == One - most_similar.distance
         IN  IF similarity >= similarity_threshold
             THEN Duplicate(NodeNamed(ns, keys, most_similar.metadata.name),
                            similarity, ReasonSemantic)
             ELSE NotDuplicate

\* what can go wrong inside checkDuplicates' try block: nothing, the embedding
\* service raises, or the query raises
CheckFaults == {"none", "embedding", "index"}

\* mutant: a failure in the try block ends the check with "no duplicate"
checkDuplicates_FaultStops(node, ns, keys, attached, fault, similar_nodes) ==
    IF title(node) \in DOMAIN ns
    THEN Duplicate(ns[title(node)], One, ReasonExact)
    ELSE IF ~attached \/ fault # "none" THEN NotDuplicate
    ELSE LET vector == VectorTier(ns, keys, similar_nodes)
         IN  IF vector.is_duplicate THEN vector
             ELSE NameTiers(node, Values(ns, keys), 1)

\* mutant: the title test is skipped
checkDuplicates_NoTitleTest(node, ns, keys, attached, fault, similar_nodes) ==
    IF ~attached THEN NotDuplicate
    ELSE LET vector == IF fault = "none"
                       THEN VectorTier(ns, keys, similar_nodes)
                       ELSE NotDuplicate
         IN  IF vector.is_duplicate THEN vector
             ELSE NameTiers(node, Values(ns, keys), 1)

\* IntegrityCheck.checkDuplicates(node, graph) of graph_factory: attached tells
\* whether the graph has a vector_store, fault what goes wrong in the try block,
\* similar_nodes what the query answers when nothing does
checkDuplicates(node, ns, keys, attached, fault, similar_nodes) ==
    IF title(node) \in DOMAIN ns
    THEN Duplicate(ns[title(node)], One, ReasonExact)
    ELSE IF ~attached THEN NotDuplicate
    ELSE LET vector == IF fault = "none"
                       THEN VectorTier(ns, keys, similar_nodes)
                       ELSE NotDuplicate
         IN  IF vector.is_duplicate THEN vector
             ELSE NameTiers(node, Values(ns, keys), 1)

\* IntegrityCheck.checkDuplicates(node, graph) of backend/graph_creation_pipeline:
\* the bare title test
checkDuplicatesTitle(node, ns) == title(node) \in DOMAIN ns

\* mutant: the check keeps what it embedded, as an entry of the collection
CheckDuplicates_Caches(node) ==
    /\ use_vector_db
    /\ vector_store' = add_node(vector_store, node, get_node_embedding(node)).store
    /\ last' = [op |-> "checkDuplicates",
                args |-> <<node>>,
                ret |-> checkDuplicates(node, nodes, node_keys, use_vector_db,
                                        "index", << >>),
                exc |-> "none",
                fault |-> "index",
                similar_nodes |-> << >>]
    /\ UNCHANGED <<nodes, node_keys, edges, bidirectional, use_vector_db>>

\* a checkDuplicates call of graph_factory's IntegrityCheck: the graph is only read
CheckDuplicates(node) ==
    \E fault \in (IF use_vector_db THEN CheckFaults ELSE {"none"}) :
        \E similar_nodes \in (IF use_vector_db /\ fault = "none"
                               THEN search_by_embedding(vector_store,
                                                        get_node_embedding(node), top_k)
                               ELSE {<< >>}) :
            /\ last' = [op |-> "checkDuplicates",
                        args |-> <<node>>,
                        ret |-> checkDuplicates(node, nodes, node_keys, use_vector_db,
                                                fault, similar_nodes),
                        exc |-> "none",
                        fault |-> fault,
                        similar_nodes |-> similar_nodes]
            /\ UNCHANGED <<nodes, node_keys, edges, bidirectional, use_vector_db,
                           vector_store>>

\* a checkDuplicates call of the title-only IntegrityCheck
CheckDuplicatesTitle(node) ==
    /\ last' = Call("checkDuplicatesTitle", <<node>>, checkDuplicatesTitle(node, nodes), "none")
    /\ UNCHANGED <<nodes, node_keys, edges, bidirectional, use_vector_db, vector_store>>

(***************************************************************************)
(* Specifications of the graph with its similarity index.                  *)
(***************************************************************************)
\* Graph.__init__ with or without a vector store, no edges in play
IndexInit ==
    /\ nodes = << >>
    /\ node_keys = << >>
    /\ edges = << >>
    /\ bidirectional = FALSE
    /\ use_vector_db \in BOOLEAN
    /\ vector_store = << >>
    /\ last = Call("init", << >>, "None", "none")

\* the edge handed to appendEdge in the similarity-index runs
IndexEdgeInputs ==
    {Edge("rebrands", "trades as", Entity("Microsoft Corporation", <<"Microsoft">>,
                                          "software company", "Company"),
          Entity("Microsoft", << >>, "technology company", "Organization"), 9)}

\* appendNode and deleteNode calls, the index work of each failing or not, and
\* appendEdge calls
NextIndex ==
    \/ \E node \in EntityInputs : AppendNode(node)
    \/ \E t \in EntityNames : DeleteNode(t)
    \/ \E edge \in IndexEdgeInputs : AppendEdge(edge)

IndexSpec == IndexInit /\ [][NextIndex]_vars

\* Graph(use_vector_db = True) with a backend that never fails
SyncInit == IndexInit /\ use_vector_db

NextSync ==
    \/ \E node \in EntityInputs : AppendNodeWith(node, "none")
    \/ \E t \in EntityNames : DeleteNodeWith(t, "none")

SyncSpec == SyncInit /\ [][NextSync]_vars

\* what VectorStore.delete_node returns: True unless collection.delete raised;
\* the collection raises nothing for an id it does not hold
delete_node_return(store, node_id, fault) == fault = "none"

\* a VectorStore.delete_node(node_id) call made on the graph's vector store
DeleteEntry(node_id) ==
    \E fault \in DeleteFaults :
        /\ use_vector_db
        /\ vector_store' = IF fault = "none" THEN delete_node(vector_store, node_id)
                           ELSE vector_store
        /\ last' = [op |-> "delete_node", args |-> <<node_id>>,
                    ret |-> delete_node_return(vector_store, node_id, fault),
                    exc |-> "none", fault |-> fault]
        /\ UNCHANGED <<nodes, node_keys, edges, bidirectional, use_vector_db>>

\* the ids delete_node is called with: those add_node can have given, and one more
EntryIds == 1..(MaxEntries + 1)

\* a graph with a vector store, appendNode calls that fill it, and delete_node
\* calls made on it
NextStore ==
    \/ \E node \in EntityInputs : AppendNodeWith(node, "none")
    \/ \E node_id \in EntryIds : DeleteEntry(node_id)

StoreSpec == SyncInit /\ [][NextStore]_vars

\* the loop body of duplicate_check_example.main: checkDuplicates(test_node, graph),
\* and graph.appendNode(test_node) when the check answered "no duplicate"
IngestGated(node) ==
    \E fault \in (IF use_vector_db THEN CheckFaults ELSE {"none"}) :
        \E similar_nodes \in (IF use_vector_db /\ fault = "none"
                               THEN search_by_embedding(vector_store,
                                                        get_node_embedding(node), top_k)
                               ELSE {<< >>}) :
            \E append_fault \in (IF use_vector_db THEN AppendFaults ELSE {"none"}) :
                LET checked == checkDuplicates(node, nodes, node_keys, use_vector_db,
                                               fault, similar_nodes)
                    indexed == IF use_vector_db
                               THEN AppendNodeIndexed(vector_store, node, append_fault)
                               ELSE [store |-> vector_store, node |-> node,
                                     caught |-> "none"]
                    added == ~checked.is_duplicate
                IN  /\ IndexRoom
                    /\ nodes' = IF added THEN NodesAfterAppend(nodes, indexed.node)
                                ELSE nodes
                    /\ node_keys' = IF added THEN KeysAfterAppend(node_keys, title(node))
                                    ELSE node_keys
                    /\ vector_store' = IF added THEN indexed.store ELSE vector_store
                    /\ last' = [op |-> "ingest", args |-> <<node>>, ret |-> checked,
                                exc |-> "none", added |-> added]
                    /\ UNCHANGED <<edges, bidirectional, use_vector_db>>

\* a graph, with or without a vector store, that takes its nodes through the gate only
NextGate == \E node \in EntityInputs : IngestGated(node)

GateSpec == IndexInit /\ [][NextGate]_vars

\* the collection after add_node of each of inputs in turn
RECURSIVE StoreAfterAddAll(_, _)
StoreAfterAddAll(store, inputs) ==
    IF inputs = << >> THEN store
    ELSE StoreAfterAddAll(add_node(store, Head(inputs), get_node_embedding(Head(inputs))).store,
                          Tail(inputs))

\* the graphs a duplicate check meets.  Any map of names to entities in any key
\* order, beside any collection of up to MaxEntries entries: appendNode adds an
\* entry and a node, or the node alone when the index work fails, and deleteNode
\* drops the node and leaves the entries
DupInit ==
    /\ edges = << >>
    /\ bidirectional = FALSE
    /\ \E K \in SUBSET EntityNames :
          /\ nodes \in {f \in [K -> EntityInputs] : \A k \in K : f[k].name = k}
          /\ node_keys \in {s \in [1..Cardinality(K) -> K] :
                               \A i \in DOMAIN s, j \in DOMAIN s : s[i] = s[j] => i = j}
    /\ use_vector_db \in BOOLEAN
    /\ IF use_vector_db
       THEN \E n \in 0..MaxEntries : \E inputs \in [1..n -> EntityInputs] :
                vector_store = StoreAfterAddAll(<< >>, inputs)
       ELSE vector_store = << >>
    /\ last = Call("init", << >>, "None", "none")

\* one duplicate check on the graph; the check reads only, so a second check would
\* meet the same graph
NextDup ==
    /\ last.op = "init"
    /\ \/ \E node \in EntityInputs : CheckDuplicates(node)
       \/ \E node \in EntityInputs : CheckDuplicatesTitle(node)

DupSpec == DupInit /\ [][NextDup]_vars


(***************************************************************************)
(* The snapshot of demo_graph/graph_generator.py: AppleGraphGenerator      *)
(* keeps a list of nodes and a list of edges and turns them into dicts.    *)
(* The node list is modelled by the values of nodes in key order, so its   *)
(* names are distinct.                                                     *)
(***************************************************************************)
\* the dict of the i-th node of the list (i counts from 1 here, enumerate from 0)
node_dict(i, node) ==
    [id |-> i - 1, name |-> node.name, type |-> node.type,
     description |-> node.description, aliases |-> node.aliases]

\* the node at position i answers to node_name: by its name or by one of its
\* aliases, ignoring case
AnswersTo(node, node_name) ==
    \/ lower(node.name) = lower(node_name)
    \/ \E a \in 1..Len(node.aliases) : lower(node.aliases[a]) = lower(node_name)

\* an int where None may stand in its place
Int_(i) == [int |-> i]

\* AppleGraphGenerator._find_node_id(node_name): the id of the first node of the
\* list that answers to the name, None when there is none
find_node_id(node_list, node_name) ==
    LET hits == {i \in 1..Len(node_list) : AnswersTo(node_list[i], node_name)}
    IN  IF hits = {} THEN None
        ELSE Int_((CHOOSE i \in hits : \A j \in hits : i <= j) - 1)

\* the dict of an edge whose endpoints were found
edge_dict(source_id, target_id, edge) ==
    [source |-> source_id, target |-> target_id, title |-> edge.title,
     description |-> edge.description, importance_score |-> edge.importance_score]

\* the edges part of _create_graph_structure from the j-th edge on: an edge with a
\* missing endpoint is left out
RECURSIVE edges_data(_, _, _)
edges_data(node_list, edge_list, j) ==
    IF j > Len(edge_list) THEN << >>
    ELSE LET source_id == find_node_id(node_list, edge_list[j].start.name)
             target_id == find_node_id(node_list, edge_list[j].end.name)
             rest == edges_data(node_list, edge_list, j + 1)
         IN  IF source_id # None /\ target_id # None
             THEN <<edge_dict(source_id.int, target_id.int, edge_list[j])>> \o rest
             ELSE rest

\* AppleGraphGenerator._create_graph_structure(): the nodes and edges of the
\* structure it returns, and the two counts of its statistics
create_graph_structure(node_list, edge_list) ==
    LET nodes_data == [i \in 1..Len(node_list) |-> node_dict(i, node_list[i])]
        emitted == edges_data(node_list, edge_list, 1)
    IN  [nodes |-> nodes_data, edges |-> emitted,
         total_nodes |-> Len(nodes_data), total_edges |-> Len(emitted)]

\* a _create_graph_structure call: the lists are only read
CreateGraphStructure ==
    /\ last' = Call("create_graph_structure", << >>,
                    create_graph_structure(Values(nodes, node_keys), edges), "none")
    /\ UNCHANGED <<nodes, node_keys, edges, bidirectional, use_vector_db, vector_store>>

\* the edges an extraction may hand to the generator: any entity to any other
SnapshotEdgeInputs ==
    {Edge("relates", "is related to", s, e, 7) :
        s \in EntityInputs \ {Entity("Microsoft Corporation", << >>, "technology company", "Company")},
        e \in EntityInputs \ {Entity("Microsoft Corporation", << >>, "technology company", "Company")}}

\* the lists a generator holds after an extraction: any entities with distinct
\* names in any order, and up to MaxSnapshotEdges edges
SnapshotInit ==
    /\ bidirectional = FALSE
    /\ use_vector_db = FALSE
    /\ vector_store = << >>
    /\ \E K \in SUBSET EntityNames :
          /\ nodes \in {f \in [K -> EntityInputs] : \A k \in K : f[k].name = k}
          /\ node_keys \in {s \in [1..Cardinality(K) -> K] :
                               \A i \in DOMAIN s, j \in DOMAIN s : s[i] = s[j] => i = j}
    /\ \E n \in 0..MaxSnapshotEdges : edges \in [1..n -> SnapshotEdgeInputs]
    /\ last = Call("init", << >>, "None", "none")

\* the snapshot is built, and built again: the lists stay as they are
NextSnapshot == CreateGraphStructure

SnapshotSpec == SnapshotInit /\ [][NextSnapshot]_vars

(***************************************************************************)
(* Vocabulary of the properties.                                           *)
(***************************************************************************)
\* edge runs from the node titled s to the node titled e
Joins(edge, s, e) == title(edge.start) = s /\ title(edge.end) = e

\* edge touches the node titled x
Incident(edge, x) == title(edge.start) = x \/ title(edge.end) = x

\* after holds exactly the edges of before at the indices in kept, in their order
IsRemainder(before, after, kept) ==
    /\ Len(after) = Cardinality(kept)
    /\ \A i \in kept : after[Cardinality({j \in kept : j <= i})] = before[i]

\* C1: appendEdge with an endpoint that is no key of nodes fails with UnknownEndpoint
\* and leaves nodes and edges as they were.
C1_Step ==
    (/\ last'.op = "appendEdge"
     /\ (last'.args[1] \notin DOMAIN nodes \/ last'.args[2] \notin DOMAIN nodes))
    => (last'.exc = "UnknownEndpoint" /\ edges' = edges /\ nodes' = nodes)

C1_UnknownEndpointRejected == [][C1_Step]_vars

\* C2: in every reachable state both endpoints of every edge are keys of nodes.
C2_NoDanglingEdge ==
    \A i \in 1..Len(edges) :
        title(edges[i].start) \in DOMAIN nodes /\ title(edges[i].end) \in DOMAIN nodes

\* C3: in a bidirectional graph every edge has a mirror edge with the same weight and
\* description, and appendEdge(A->B, w) leaves A->B and B->A, both with weight w, at
\* the end of edges.
C3_MirrorInvariant ==
    bidirectional =>
        /\ \A i \in 1..Len(edges) : \E j \in 1..Len(edges) :
              /\ Joins(edges[j], title(edges[i].end), title(edges[i].start))
              /\ Score(edges[j]) = Score(edges[i])
              /\ edges[j].description = edges[i].description
        /\ last.op = "appendEdge" =>
              LET n == Len(edges) IN
              /\ n >= 2
              /\ Joins(edges[n - 1], last.args[1], last.args[2])
              /\ Joins(edges[n], last.args[2], last.args[1])
              /\ Score(edges[n]) = Score(edges[n - 1])

C3_Witness ==
    /\ bidirectional
    /\ last.op = "deleteEdge" /\ last.ret = TRUE
    /\ Len(edges) >= 2
    /\ \E i \in 1..Len(edges) : title(edges[i].start) # title(edges[i].end)

\* C4: deleteEdge(A, B) removes every A->B edge, and every B->A edge exactly when the
\* graph is bidirectional; the other edges stay in their order and nodes is unchanged.
C4_Step ==
    last'.op = "deleteEdge" =>
        LET A == last'.args[1]
            B == last'.args[2]
            kept == {i \in 1..Len(edges) :
                        ~(\/ Joins(edges[i], A, B)
                          \/ (bidirectional /\ Joins(edges[i], B, A)))}
        IN  /\ nodes' = nodes
            /\ \A i \in 1..Len(edges') : ~Joins(edges'[i], A, B)
            /\ bidirectional => \A i \in 1..Len(edges') : ~Joins(edges'[i], B, A)
            /\ IsRemainder(edges, edges', kept)

C4_DeleteEdgeFrame == [][C4_Step]_vars

C4_Witness ==
    /\ ~bidirectional
    /\ last.op = "deleteEdge" /\ last.ret = TRUE
    /\ last.args[1] # last.args[2]
    /\ \E i \in 1..Len(edges) : Joins(edges[i], last.args[2], last.args[1])

\* C5: deleteNode(X) on a graph holding X removes the key X and every edge that starts
\* or ends at X; the edges not incident to X and the other nodes are unchanged.
C5_Step ==
    (last'.op = "deleteNode" /\ last'.args[1] \in DOMAIN nodes) =>
        LET X == last'.args[1]
            kept == {i \in 1..Len(edges) : ~Incident(edges[i], X)}
        IN  /\ DOMAIN nodes' = DOMAIN nodes \ {X}
            /\ \A k \in DOMAIN nodes' : nodes'[k] = nodes[k]
            /\ \A i \in 1..Len(edges') : ~Incident(edges'[i], X)
            /\ IsRemainder(edges, edges', kept)

C5_DeleteNodeCascade == [][C5_Step]_vars

C5_Witness ==
    /\ last.op = "deleteNode" /\ last.ret = TRUE
    /\ Len(edges) >= 1
    /\ DOMAIN nodes # {}

\* C6: deleteNode returns true exactly when the name was a key of nodes, deleteEdge
\* returns true exactly when an edge was removed; neither raises, and a call that
\* returns false leaves nodes and edges unchanged.
C6_Step ==
    /\ last'.op = "deleteNode" =>
          /\ last'.exc = "none"
          /\ last'.ret = (last'.args[1] \in DOMAIN nodes)
          /\ last'.ret = FALSE => (nodes' = nodes /\ edges' = edges)
    /\ last'.op = "deleteEdge" =>
          /\ last'.exc = "none"
          /\ last'.ret = (edges' # edges)
          /\ last'.ret = FALSE => (nodes' = nodes /\ edges' = edges)
          /\ (\A i \in 1..Len(edges) :
                 ~(\/ Joins(edges[i], last'.args[1], last'.args[2])
                   \/ (bidirectional /\ Joins(edges[i], last'.args[2], last'.args[1]))))
             => last'.ret = FALSE

C6_DeleteReturns == [][C6_Step]_vars

C6_Witness ==
    /\ last.op = "deleteEdge" /\ last.ret = FALSE
    /\ Len(edges) >= 1
    /\ \E k \in DOMAIN nodes : TRUE

(***************************************************************************)
(* Vocabulary of the path properties, defined from the graph alone.        *)
(***************************************************************************)
\* the lists of distinct titles
SimpleLists ==
    {p \in UNION {[1..k -> Titles] : k \in 1..Len(TitleOrder)} :
        \A i \in 1..Len(p), j \in 1..Len(p) : i # j => p[i] # p[j]}

\* some edge of es runs from s to e
Linked(es, s, e) == \E i \in 1..Len(es) : Joins(es[i], s, e)

\* p follows edges of es from A to B
IsPath(es, p, A, B) ==
    /\ Len(p) >= 1 /\ p[1] = A /\ p[Len(p)] = B
    /\ \A i \in 1..(Len(p) - 1) : Linked(es, p[i], p[i + 1])

\* the simple directed paths from A to B
SimplePaths(es, A, B) == {p \in SimpleLists : IsPath(es, p, A, B)}

\* product of the scores of the edges p traverses (of the first such edge in es, where
\* parallel edges exist)
RECURSIVE ProductAlong(_, _)
ProductAlong(es, p) ==
    IF Len(p) <= 1 THEN Frac(1, 1)
    ELSE LET i == CHOOSE i \in 1..Len(es) :
                      /\ Joins(es[i], p[1], p[2])
                      /\ \A j \in 1..(i - 1) : ~Joins(es[j], p[1], p[2])
             rest == ProductAlong(es, Tail(p))
         IN  Frac(Score(es[i]) * rest.num, 10 * rest.den)

\* the last call was find_paths and it returned
Returned == last.op = "find_paths" /\ last.exc = "none"

\* C7: for amount >= 0 find_paths returns at most amount paths, each a list of titles
\* from A to B along existing edges with no title twice.  (The property is of the
\* returned list; a call that raises returns none, see C9 and C10.)
C7_PathsWellFormed ==
    (Returned /\ last.args[3] >= 0) =>
        /\ Len(last.ret) <= last.args[3]
        /\ \A k \in 1..Len(last.ret) :
              /\ IsPath(edges, last.ret[k], last.args[1], last.args[2])
              /\ last.ret[k] \in SimpleLists

C7_Witness ==
    /\ Returned
    /\ last.args[3] = 1 /\ Len(last.ret) = 1
    /\ Len(last.ret[1]) >= 2
    /\ Cardinality(SimplePaths(edges, last.args[1], last.args[2])) >= 2

\* C8: the returned list is ordered by non-increasing product of the traversed edges'
\* weights, and no simple path left out is strictly heavier than a returned one
\* (stated for the amounts >= 0, where the result is a prefix of the sorted list, and
\* for graphs without a dangling edge).
C8_SortedByProduct ==
    (Returned /\ last.args[3] >= 0 /\ C2_NoDanglingEdge) =>
        /\ \A k \in 1..(Len(last.ret) - 1) :
              ~FracLess(ProductAlong(edges, last.ret[k]),
                        ProductAlong(edges, last.ret[k + 1]))
        /\ \A p \in SimplePaths(edges, last.args[1], last.args[2]) :
              (\A k \in 1..Len(last.ret) : last.ret[k] # p) =>
                  \A k \in 1..Len(last.ret) :
                      ~FracLess(ProductAlong(edges, last.ret[k]), ProductAlong(edges, p))

\* C9: on nodes {Apple, Supplier1, Supplier2} with edges Apple->Supplier1 (0.9) and
\* Supplier1->Supplier2 (0.5), not bidirectional, find_paths("Apple", "Supplier2", 1)
\* returns [[Apple, Supplier1, Supplier2]] with accumulated weight 0.45; and the
\* weight recorded for any returned path is the product of its edges' weights.
C9_Scenario ==
    /\ ~bidirectional
    /\ DOMAIN nodes = {"Apple", "Supplier1", "Supplier2"}
    /\ Len(edges) = 2
    /\ Joins(edges[1], "Apple", "Supplier1") /\ Score(edges[1]) = 9
    /\ Joins(edges[2], "Supplier1", "Supplier2") /\ Score(edges[2]) = 5
    /\ last.op = "find_paths" /\ last.args = <<"Apple", "Supplier2", 1>>

C9_ProductWeight ==
    /\ C9_Scenario =>
          /\ last.exc = "none"
          /\ last.ret = << <<"Apple", "Supplier1", "Supplier2">> >>
          /\ FracEq(last.weights[1], Frac(45, 100))
    /\ (Returned /\ C2_NoDanglingEdge) =>
          \A k \in 1..Len(last.ret) :
              Len(last.ret[k]) >= 2 =>
                  FracEq(last.weights[k], ProductAlong(edges, last.ret[k]))

\* C10: find_paths returns [] without raising when A or B is no key of nodes or no
\* directed path leads from A to B (stated for the amounts >= 0 and for graphs
\* without a dangling edge).
C10_EmptyWithoutRaising ==
    (/\ last.op = "find_paths"
     /\ last.args[3] >= 0
     /\ C2_NoDanglingEdge
     /\ \/ last.args[1] \notin DOMAIN nodes
        \/ last.args[2] \notin DOMAIN nodes
        \/ SimplePaths(edges, last.args[1], last.args[2]) = {})
    => (last.exc = "none" /\ last.ret = << >>)

(***************************************************************************)
(* Claims about appendNode / deleteNode and the similarity index.          *)
(***************************************************************************)
\* C11: appendNode(e) makes nodes[e.name] = e, adding the key when it is new and
\* overwriting the stored node when it is held (the number of nodes is then
\* unchanged); it never raises, and it leaves the edges and every other entry of
\* nodes as they were.
C11_Step ==
    last'.op = "appendNode" =>
        LET e == last'.node
        IN  /\ last'.exc = "none"
            /\ DOMAIN nodes' = DOMAIN nodes \cup {e.name}
            /\ nodes'[e.name] = e
            /\ \A k \in DOMAIN nodes \ {e.name} : nodes'[k] = nodes[k]
            /\ e.name \in DOMAIN nodes =>
                   Cardinality(DOMAIN nodes') = Cardinality(DOMAIN nodes)
            /\ edges' = edges

C11_AppendNodeFrame == [][C11_Step]_vars

\* an appendNode of a name the graph held before the call (it is ahead of a later
\* key), with other content than an earlier insert of that name, beside an edge
C11_Witness ==
    /\ last.op = "appendNode"
    /\ Len(node_keys) = 2
    /\ node_keys[1] = last.args[1]
    /\ nodes[last.args[1]] = last.node
    /\ \E i \in 1..Len(vector_store) :
          /\ vector_store[i].metadata.name = last.node.name
          /\ vector_store[i].metadata.description # last.node.description
    /\ edges # << >>

\* the entries of the collection whose metadata name is the given name
EntriesNamed(store, name) == {i \in 1..Len(store) : store[i].metadata.name = name}

\* C12: with the index in use and nothing ever failing, the collection holds exactly
\* one entry for each node of the graph, after an overwrite or a repeated insert too.
C12_OneEntryPerNode ==
    \A k \in DOMAIN nodes :
        /\ Cardinality(EntriesNamed(vector_store, k)) = 1
        /\ \A i \in EntriesNamed(vector_store, k) :
              vector_store[i].metadata = Metadata(nodes[k])

\* C13: with the index in use and nothing ever failing, once deleteNode(X) has
\* returned true no entry of the collection has the metadata name X.
C13_DeleteNodeDropsEntry ==
    (last.op = "deleteNode" /\ last.ret = TRUE) =>
        EntriesNamed(vector_store, last.args[1]) = {}

\* C14: when the embedding service or the collection fails during appendNode or
\* deleteNode, the call raises nothing and the graph is changed all the same:
\* appendNode stores the node, deleteNode removes the node and its incident edges
\* and returns true.
C14_Step ==
    /\ (last'.op = "appendNode" /\ last'.fault # "none") =>
          /\ last'.exc = "none"
          /\ last'.node.name \in DOMAIN nodes'
          /\ nodes'[last'.node.name] = last'.node
    /\ (last'.op = "deleteNode" /\ last'.fault # "none" /\ last'.args[1] \in DOMAIN nodes) =>
          LET X == last'.args[1]
              kept == {i \in 1..Len(edges) : ~Incident(edges[i], X)}
          IN  /\ last'.exc = "none"
              /\ last'.ret = TRUE
              /\ DOMAIN nodes' = DOMAIN nodes \ {X}
              /\ IsRemainder(edges, edges', kept)

C14_FailuresSwallowed == [][C14_Step]_vars

\* an appendNode whose index work failed: the node is stored, the collection has
\* no entry for it
C14_Witness ==
    /\ last.op = "appendNode"
    /\ last.fault # "none"
    /\ last.exc = "none"
    /\ nodes[last.args[1]] = last.node
    /\ EntriesNamed(vector_store, last.args[1]) = {}

(***************************************************************************)
(* Claims about checkDuplicates.                                           *)
(***************************************************************************)
\* the node checked by the last checkDuplicates call
Candidate == last.args[1]

\* the last call was a checkDuplicates of graph_factory's IntegrityCheck
Checked == last.op = "checkDuplicates"

ExactHolds == Candidate.name \in DOMAIN nodes

VectorHolds ==
    /\ use_vector_db
    /\ last.fault = "none"
    /\ last.similar_nodes # << >>
    /\ One - last.similar_nodes[1].distance >= similarity_threshold

CaseHolds == \E k \in DOMAIN nodes : lower(nodes[k].name) = lower(Candidate.name)

AliasHolds == \E k \in DOMAIN nodes : AliasMatches(Candidate, nodes[k])

\* the reason of the first tier, in the order exact, vector, case, alias, whose
\* condition holds; "None" when none does
FirstTierReason ==
    IF ExactHolds THEN ReasonExact
    ELSE IF VectorHolds THEN ReasonSemantic
    ELSE IF CaseHolds THEN ReasonCase
    ELSE IF AliasHolds THEN ReasonAlias
    ELSE "None"

\* C16: on a graph with a vector store, checkDuplicates reports the reason and the
\* match of the first tier, in the order exact, vector, case-insensitive, alias,
\* whose condition holds for any existing node: when the first two do not match and
\* some node's name equals the candidate's ignoring case, the result is the
\* case-insensitive match, whichever node lists the name as an alias.
C16_TiersInOrder ==
    (Checked /\ use_vector_db) =>
        IF FirstTierReason = "None" THEN ~last.ret.is_duplicate
        ELSE /\ last.ret.is_duplicate
             /\ last.ret.info.reason = FirstTierReason
             /\ FirstTierReason = ReasonCase =>
                    lower(last.ret.info.node.name) = lower(Candidate.name)

\* a graph without a vector store that holds "Microsoft Corporation" with the alias
\* "Microsoft", checked for a candidate named "Microsoft"
C17_Scenario ==
    /\ Checked
    /\ ~use_vector_db
    /\ DOMAIN nodes = {"Microsoft Corporation"}
    /\ nodes["Microsoft Corporation"].aliases = <<"Microsoft">>
    /\ Candidate.name = "Microsoft"

\* C17: on a graph without a vector store checkDuplicates still runs the name
\* tiers: the candidate "Microsoft" is a duplicate of "Microsoft Corporation" by its
\* alias, and any candidate whose name equals, ignoring case, the name or an alias
\* of an existing node is reported as a duplicate.
C17_NameTiersWithoutIndex ==
    /\ C17_Scenario =>
          /\ last.ret.is_duplicate
          /\ last.ret.info.reason = ReasonAlias
          /\ last.ret.info.node = nodes["Microsoft Corporation"]
    /\ (Checked /\ ~use_vector_db /\ (CaseHolds \/ AliasHolds)) => last.ret.is_duplicate

\* the last check reached the vector tier and the query answered with an entry
VectorAnswered ==
    /\ Checked
    /\ ~ExactHolds
    /\ use_vector_db
    /\ last.fault = "none"
    /\ last.similar_nodes # << >>

C19_FailureFallsThrough ==
    /\ Checked => (last.exc = "none" /\ last.ret.is_duplicate \in BOOLEAN)
    /\ (Checked /\ use_vector_db /\ last.fault # "none" /\ ~ExactHolds) =>
          /\ last.ret.is_duplicate <=> (CaseHolds \/ AliasHolds)
          /\ last.ret.is_duplicate =>
                \/ /\ last.ret.info.reason = ReasonCase
                   /\ lower(last.ret.info.node.name) = lower(Candidate.name)
                \/ /\ last.ret.info.reason = ReasonAlias
                   /\ AliasMatches(Candidate, last.ret.info.node)

\* a check whose embedding or query failed and which found the candidate's name
\* among the aliases of a node
C19_Witness ==
    /\ Checked
    /\ use_vector_db
    /\ last.fault # "none"
    /\ ~ExactHolds
    /\ vector_store # << >>
    /\ last.ret.is_duplicate
    /\ last.ret.info.reason = ReasonAlias

\* C20: a checkDuplicates that returns is_duplicate = True hands back a matched
\* node that is a value of graph.nodes, with a similarity and a reason; one that
\* returns False hands back None.
C20_MatchIsLiveNode ==
    Checked =>
        IF last.ret.is_duplicate
        THEN /\ last.ret.info # None
             /\ last.ret.info.node # None
             /\ \E k \in DOMAIN nodes : nodes[k] = last.ret.info.node
             /\ last.ret.info.similarity \in 0..One
             /\ last.ret.info.reason \in {ReasonExact, ReasonSemantic, ReasonCase, ReasonAlias}
        ELSE last.ret.info = None

(***************************************************************************)
(* Claims about the snapshot.                                              *)
(***************************************************************************)
\* the id of the node of the list whose name is exactly the given one
IdOfName(node_list, name) ==
    (CHOOSE i \in 1..Len(node_list) : node_list[i].name = name) - 1

\* every endpoint of every edge is the name of a node of the list
EndpointsAreNames(node_list, edge_list) ==
    \A j \in 1..Len(edge_list) :
        /\ \E i \in 1..Len(node_list) : node_list[i].name = edge_list[j].start.name
        /\ \E i \in 1..Len(node_list) : node_list[i].name = edge_list[j].end.name

\* C21: the snapshot gives the i-th node of the list the id i (from 0), and every
\* emitted edge has for source and target the ids of the nodes whose names are the
\* edge's start and end names, and carries the edge's score (stated for lists in
\* which every endpoint is the name of a node).
C21_SnapshotIds ==
    (last.op = "create_graph_structure"
        /\ EndpointsAreNames(Values(nodes, node_keys), edges)) =>
        LET node_list == Values(nodes, node_keys)
        IN  /\ Len(last.ret.nodes) = Len(node_list)
            /\ \A i \in 1..Len(node_list) :
                  /\ last.ret.nodes[i].id = i - 1
                  /\ last.ret.nodes[i].name = node_list[i].name
            /\ Len(last.ret.edges) = Len(edges)
            /\ \A j \in 1..Len(edges) :
                  /\ last.ret.edges[j].source = IdOfName(node_list, edges[j].start.name)
                  /\ last.ret.edges[j].target = IdOfName(node_list, edges[j].end.name)
                  /\ last.ret.edges[j].importance_score = edges[j].importance_score

(***************************************************************************)
(* Claims about VectorStore.delete_node.                                   *)
(***************************************************************************)
\* C22: delete_node(id), the collection not failing, returns true exactly when an
\* entry with that id existed and was removed, false when no entry has the id;
\* either way all other entries are unchanged.
C22_Step ==
    (last'.op = "delete_node" /\ last'.fault = "none") =>
        LET node_id == last'.args[1]
            held == \E i \in 1..Len(vector_store) : vector_store[i].id = node_id
            Other(entry) == entry.id # node_id
        IN  /\ last'.ret = held
            /\ vector_store' = SelectSeq(vector_store, Other)

C22_DeleteReturnsRemoved == [][C22_Step]_vars

(***************************************************************************)
(* Further claims about find_paths.                                        *)
(***************************************************************************)
\* the last call was a find_paths between two nodes of the graph
Searched ==
    /\ last.op = "find_paths"
    /\ last.args[1] \in DOMAIN nodes
    /\ last.args[2] \in DOMAIN nodes

\* C23: when amount is at least the number of simple directed paths from A to B,
\* find_paths returns, and every such path is in the result.
C23_EveryPathReturned ==
    (Searched /\ last.args[3] >= Cardinality(SimplePaths(edges, last.args[1], last.args[2]))) =>
        /\ last.exc = "none"
        /\ \A p \in SimplePaths(edges, last.args[1], last.args[2]) :
              \E k \in 1..Len(last.ret) : last.ret[k] = p

\* C24: find_paths comes to an end on every graph, cycles, self-loops and mirrored
\* edges included, because a node on the current path is never entered again: the
\* path list never grows beyond one entry per title.  When the search returns, the
\* visited set and the path list are empty again, and nodes and edges are as they
\* were.
C24_Step ==
    last'.op = "find_paths" =>
        /\ last'.depth <= Cardinality(Titles)
        /\ nodes' = nodes
        /\ edges' = edges
        /\ last'.exc = "none" => (last'.path = << >> /\ last'.visited = {})

C24_SearchEndsClean == [][C24_Step]_vars

\* a search that returned a path of three nodes on a bidirectional graph with a
\* self-loop
C24_Witness ==
    /\ Returned
    /\ bidirectional
    /\ \E i \in 1..Len(edges) : title(edges[i].start) = title(edges[i].end)
    /\ Len(last.ret) >= 1
    /\ Len(last.ret[1]) = 3
    /\ last.depth = 3
    /\ last.path = << >>
    /\ last.visited = {}

\* every edge of the graph carries a weight (the Edge of graph_factory)
AllWeighted == \A i \in 1..Len(edges) : HasWeight(edges[i])

\* C25: get_path_with_most_weight(graph, A, B) returns [] when there is no path from
\* A to B, and otherwise a simple path from A to B whose product of edge weights is
\* greatest among the simple paths from A to B (stated for graphs whose edges all
\* carry a weight).
C25_HeaviestPath ==
    (/\ last.op = "get_path_with_most_weight"
     /\ AllWeighted
     /\ last.args[1] \in DOMAIN nodes
     /\ last.args[2] \in DOMAIN nodes) =>
        LET paths == SimplePaths(edges, last.args[1], last.args[2])
        IN  /\ last.exc = "none"
            /\ paths = {} => last.ret = << >>
            /\ paths # {} =>
                  /\ last.ret \in paths
                  /\ \A p \in paths :
                        ~FracLess(ProductAlong(edges, last.ret), ProductAlong(edges, p))

\* C26: when every node is appended only after checkDuplicates answered "no
\* duplicate" for it, then, with or without a vector store, no node has a name that
\* equals, ignoring case, the name or an alias of a node that was in the graph when
\* it was appended.  (Under the gate no title is appended twice, so the key order of
\* nodes is the order of the appends.)
C26_GateKeepsNamesApart ==
    \A i \in 1..Len(node_keys), j \in 1..Len(node_keys) :
        i < j =>
            /\ lower(nodes[node_keys[j]].name) # lower(nodes[node_keys[i]].name)
            /\ ~AliasMatches(nodes[node_keys[j]], nodes[node_keys[i]])

\* the same, of the graphs that have a vector store
C26_WithIndex == use_vector_db => C26_GateKeepsNamesApart

\* C27: checkDuplicates only reads: whatever the candidate and the outcome (a
\* duplicate of any tier, no duplicate, a failing embedding or query), nodes, edges
\* and the entries of the collection are as before, so the same check made again on
\* the state it leaves, with the same answers of the embedding service and the
\* collection, returns the same result.
C27_Step ==
    last'.op = "checkDuplicates" =>
        /\ nodes' = nodes
        /\ node_keys' = node_keys
        /\ edges' = edges
        /\ vector_store' = vector_store
        /\ (use_vector_db' /\ last'.fault = "none") =>
              last'.similar_nodes \in
                  search_by_embedding(vector_store', get_node_embedding(last'.args[1]), top_k)
        /\ last'.ret = checkDuplicates(last'.args[1], nodes', node_keys', use_vector_db',
                                       last'.fault, last'.similar_nodes)

C28_NoPathTwice ==
    (Returned /\ AllWeighted) =>
        \A j \in 1..Len(last.ret), k \in 1..Len(last.ret) :
            j # k => last.ret[j] # last.ret[k]

\* C29: for a node A of the graph and amount >= 1, find_paths(A, A, amount) returns
\* exactly the one path [A] and explores no edge: the path list never holds more
\* than A, whatever edges leave A (weightless ones, which would raise, included).
C29_SameNodePath ==
    (/\ last.op = "find_paths"
     /\ last.args[1] = last.args[2]
     /\ last.args[1] \in DOMAIN nodes
     /\ last.args[3] >= 1) =>
        /\ last.exc = "none"
        /\ last.ret = << <<last.args[1]>> >>
        /\ last.depth = 1

C29_Witness ==
    /\ last.op = "find_paths"
    /\ last.args = <<"Supplier1", "Supplier1", 2>>
    /\ "Supplier1" \in DOMAIN nodes
    /\ \E i \in 1..Len(edges) : Joins(edges[i], "Supplier1", "Supplier1")
    /\ \E i \in 1..Len(edges) : Joins(edges[i], "Supplier1", "Supplier2") /\ ~HasWeight(edges[i])
    /\ \E i \in 1..Len(edges) : Joins(edges[i], "Supplier2", "Supplier1")
    /\ last.ret = << <<"Supplier1">> >>

\* list(reversed(p))
Reverse(p) == [i \in 1..Len(p) |-> p[Len(p) + 1 - i]]

\* C30: in a bidirectional graph built by appendEdge calls, when amount is at least
\* the number of simple paths from A to B, a list of titles P is returned by
\* find_paths(A, B, amount) exactly when its reverse is returned by
\* find_paths(B, A, amount), and the two carry the same accumulated weight.
C30_SearchSymmetric ==
    (/\ Searched
     /\ bidirectional
     /\ last.args[3] >= Cardinality(SimplePaths(edges, last.args[1], last.args[2]))) =>
        LET back == find_paths(nodes, edges, last.args[2], last.args[1], last.args[3])
        IN  /\ last.exc = "none"
            /\ back.exc = "none"
            /\ \A j \in 1..Len(last.ret) :
                  \E k \in 1..Len(back.items) :
                      /\ back.items[k].path = Reverse(last.ret[j])
                      /\ FracEq(back.items[k].weight, last.weights[j])
            /\ \A k \in 1..Len(back.items) :
                  \E j \in 1..Len(last.ret) :
                      /\ last.ret[j] = Reverse(back.items[k].path)
                      /\ FracEq(last.weights[j], back.items[k].weight)
====
